---- MODULE Spec2Model ----
(***************************************************************************)
(* Model of the analytics dashboard (React component `Dashboard`) and of   *)
(* the Power BI embed-token relay (`GET` of pages/api/powerbi-token.ts).   *)
(*                                                                         *)
(* JavaScript values are modelled as follows.                              *)
(*   - a string is a TLA+ string; only Len, SubSeq and \o are used on it;  *)
(*   - `undefined` is the sentinel UNDEFINED, which is no cell value;      *)
(*   - a number is a record [nan |-> BOOLEAN, v |-> Int]; NaN compares     *)
(*     false with everything, as in JavaScript;                            *)
(*   - a row is a function from field names to cell strings (the shape     *)
(*     Papa.parse with header:true produces).                              *)
(***************************************************************************)
EXTENDS Integers, Sequences, FiniteSets, TLC

UNDEFINED == "<undefined>"

(***************************************************************************)
(* JavaScript numbers                                                      *)
(***************************************************************************)
Num(n) == [nan |-> FALSE, v |-> n]
NaN == [nan |-> TRUE, v |-> 0]

\* a >= b and a <= b of JavaScript: false as soon as one side is NaN
NumGe(a, b) == ~a.nan /\ ~b.nan /\ a.v >= b.v
NumLe(a, b) == ~a.nan /\ ~b.nan /\ a.v <= b.v

\* x || 0 for a number x: NaN and 0 are falsy
OrZero(x) == IF x.nan THEN Num(0) ELSE x

(***************************************************************************)
(* JavaScript strings                                                      *)
(***************************************************************************)
CharAt(s, i) == SubSeq(s, i, i)
Tail1(s) == SubSeq(s, 2, Len(s))

UpperChars == "ABCDEFGHIJKLMNOPQRSTUVWXYZ"
LowerChars == "abcdefghijklmnopqrstuvwxyz"
DigitChars == "0123456789"

\* position of character c in alphabet, 0 when it is not in it
IndexIn(c, alphabet) ==
    IF \E i \in 1..Len(alphabet) : CharAt(alphabet, i) = c
    THEN CHOOSE i \in 1..Len(alphabet) : CharAt(alphabet, i) = c
    ELSE 0

Digits == {CharAt(DigitChars, i) : i \in 1..Len(DigitChars)}
DigitMap == [c \in Digits |-> IndexIn(c, DigitChars) - 1]
Uppers == {CharAt(UpperChars, i) : i \in 1..Len(UpperChars)}
LowerMap == [c \in Uppers |-> CharAt(LowerChars, IndexIn(c, UpperChars))]

IsDigit(c) == c \in Digits
DigitVal(c) == DigitMap[c]

LowerChar(c) == IF c \in Uppers THEN LowerMap[c] ELSE c

RECURSIVE toLowerCase(_)
toLowerCase(s) ==
    IF Len(s) = 0 THEN "" ELSE LowerChar(CharAt(s, 1)) \o toLowerCase(Tail1(s))

\* s.includes(t)
includes(s, t) ==
    \E i \in 1..(Len(s) - Len(t) + 1) : SubSeq(s, i, i + Len(t) - 1) = t

\* a string is truthy when it is neither undefined nor empty
Truthy(s) == s # UNDEFINED /\ s # ""

\* s.split(".").pop(): what follows the last ".", or all of s without one
RECURSIVE LastSegment(_)
LastSegment(s) ==
    IF includes(s, ".")
    THEN LastSegment(SubSeq(s, (CHOOSE i \in 1..Len(s) : CharAt(s, i) = ".") + 1, Len(s)))
    ELSE s

\* the leading run of decimal digits of s, as a number (acc carries the value)
RECURSIVE DigitsValue(_, _)
DigitsValue(s, acc) ==
    IF Len(s) > 0 /\ IsDigit(CharAt(s, 1))
    THEN DigitsValue(Tail1(s), 10 * acc + DigitVal(CharAt(s, 1)))
    ELSE acc

RECURSIVE TrimLeft(_)
TrimLeft(s) == IF Len(s) > 0 /\ CharAt(s, 1) = " " THEN TrimLeft(Tail1(s)) ELSE s

\* parseFloat(x) on undefined or a string: leading blanks, an optional sign,
\* then decimal digits; NaN when no digit starts the number.  (The cell and
\* bound vocabulary below holds no "." and no exponent.)
parseFloat(x) ==
    IF x = UNDEFINED THEN NaN
    ELSE LET t == TrimLeft(x)
             neg == Len(t) > 0 /\ CharAt(t, 1) = "-"
             signed == Len(t) > 0 /\ CharAt(t, 1) \in {"-", "+"}
             body == IF signed THEN Tail1(t) ELSE t
         IN  IF Len(body) > 0 /\ IsDigit(CharAt(body, 1))
             THEN Num(IF neg THEN 0 - DigitsValue(body, 0) ELSE DigitsValue(body, 0))
             ELSE NaN

AllDigits(s) == \A i \in 1..Len(s) : IsDigit(CharAt(s, i))

\* new Date(str) for a date-only ISO string "YYYY-MM-DD": its time value, here
\* the day ordinal (order-isomorphic to the millisecond value); Invalid Date
\* (time value NaN) for anything else in the vocabulary below.
NewDate(s) ==
    IF /\ Len(s) = 10
       /\ CharAt(s, 5) = "-" /\ CharAt(s, 8) = "-"
       /\ AllDigits(SubSeq(s, 1, 4)) /\ AllDigits(SubSeq(s, 6, 7))
       /\ AllDigits(SubSeq(s, 9, 10))
       /\ DigitsValue(SubSeq(s, 6, 7), 0) \in 1..12
       /\ DigitsValue(SubSeq(s, 9, 10), 0) \in 1..31
    THEN Num(372 * DigitsValue(SubSeq(s, 1, 4), 0)
             + 31 * DigitsValue(SubSeq(s, 6, 7), 0)
             + DigitsValue(SubSeq(s, 9, 10), 0))
    ELSE NaN

(***************************************************************************)
(* Inputs: the files a user can pick, and what the controls can be set to  *)
(***************************************************************************)
\* rows as the parsers deliver them: every row of a file has all its fields
SalesRows ==
    << [Region |-> "North", Sales |-> "100", Date |-> "bad", date |-> ""],
       [Region |-> "South", Sales |-> "200", Date |-> "", date |-> "2024-03-01"],
       [Region |-> "North", Sales |-> "bad", Date |-> "2024-01-05", date |-> ""] >>

QuarterRows ==
    << [Item |-> "", Revenue |-> ""],
       [Item |-> "nut", Revenue |-> "40"],
       [Item |-> "nut", Revenue |-> "40"] >>

\* name: File.name; fields: the header row; data: the parsed rows
SalesFile ==
    [name |-> "sales.csv", fields |-> <<"Region", "Sales", "Date", "date">>,
     data |-> SalesRows]
QuarterFile ==
    [name |-> "Q2.XLSX", fields |-> <<"Item", "Revenue">>, data |-> QuarterRows]
Files ==
    { SalesFile, QuarterFile,
      [name |-> "notes.txt", fields |-> <<"Item">>, data |-> <<[Item |-> "nut"]>>],
      [name |-> "sales.csv.bak", fields |-> <<"Region">>,
       data |-> <<[Region |-> "North"]>>],
      [name |-> "README", fields |-> <<"Item">>, data |-> <<[Item |-> "nut"]>>] }

\* what the user types or picks in a session
TextQueries == {"", "NO"}
StartInputs == {"", "2024-02-01"}
EndInputs == {"", "2024-01-05"}
MinInputs == {"", "150"}
MaxInputs == {"", "50"}

\* in-flight file reads at one time
MaxPending == 2

(***************************************************************************)
(* Dashboard: derived values                                               *)
(***************************************************************************)
EmptyObj == [k \in {} |-> ""]
NULL == [type |-> "null"]

\* row[field], undefined when the row has no such property
Get(row, field) == IF field \in DOMAIN row THEN row[field] ELSE UNDEFINED

\* lines 98-104: Object.values(row).some(v => String(v).toLowerCase().includes(q))
TextMatch(row, text) ==
    \E f \in DOMAIN row : includes(toLowerCase(row[f]), toLowerCase(text))

\* DateMatch with an Invalid Date let through (an isNaN guard added)
DateMatchPermissive(row, range) ==
    LET dateStr == IF Truthy(Get(row, "Date")) THEN row["Date"]
                   ELSE IF Truthy(Get(row, "date")) THEN row["date"]
                   ELSE UNDEFINED
    IN  IF ~Truthy(dateStr) \/ NewDate(dateStr).nan THEN TRUE
        ELSE /\ (~Truthy(range.start) \/ NumGe(NewDate(dateStr), NewDate(range.start)))
             /\ (~Truthy(range.end) \/ NumLe(NewDate(dateStr), NewDate(range.end)))

\* lines 108-118: the callback of the date-range filter
DateMatch(row, range) ==
    LET dateStr == IF Truthy(Get(row, "Date")) THEN row["Date"]
                   ELSE IF Truthy(Get(row, "date")) THEN row["date"]
                   ELSE UNDEFINED
    IN  IF ~Truthy(dateStr) THEN TRUE
        ELSE /\ (~Truthy(range.start) \/ NumGe(NewDate(dateStr), NewDate(range.start)))
             /\ (~Truthy(range.end) \/ NumLe(NewDate(dateStr), NewDate(range.end)))

\* NumericMatch with `parseFloat(row[field]) || 0`, as the KPIs coerce
NumericMatchCoerced(row, field, bound) ==
    IF bound.min # "" \/ bound.max # ""
    THEN LET val == OrZero(parseFloat(Get(row, field)))
         IN  /\ (~Truthy(bound.min) \/ NumGe(val, parseFloat(bound.min)))
             /\ (~Truthy(bound.max) \/ NumLe(val, parseFloat(bound.max)))
    ELSE TRUE

\* lines 123-131: one entry [field, {min, max}] of numericFilters
NumericMatch(row, field, bound) ==
    IF bound.min # "" \/ bound.max # ""
    THEN LET val == parseFloat(Get(row, field))
         IN  /\ (~Truthy(bound.min) \/ NumGe(val, parseFloat(bound.min)))
             /\ (~Truthy(bound.max) \/ NumLe(val, parseFloat(bound.max)))
    ELSE TRUE

\* lines 95-132: the value handed to setFilteredData.  The entries of
\* numericFilters filter one after the other, which keeps the rows that pass all.
FilterRows(rows, text, range, bounds) ==
    LET afterText == IF Truthy(text)
                     THEN SelectSeq(rows, LAMBDA row : TextMatch(row, text))
                     ELSE rows
        afterDate == IF Truthy(range.start) \/ Truthy(range.end)
                     THEN SelectSeq(afterText, LAMBDA row : DateMatch(row, range))
                     ELSE afterText
    IN  SelectSeq(afterDate,
                  LAMBDA row : \A f \in DOMAIN bounds : NumericMatch(row, f, bounds[f]))

\* lines 149-154, 167-172: one column definition per field
ColumnDefsOf(fields) ==
    [i \in 1..Len(fields) |->
        [headerName |-> fields[i], field |-> fields[i], filter |-> TRUE, sortable |-> TRUE]]

\* line 206: the field of the first column named like sales or revenue
SalesField(cols) ==
    LET hits == {i \in 1..Len(cols) :
                    \/ includes(toLowerCase(cols[i].field), "sales")
                    \/ includes(toLowerCase(cols[i].field), "revenue")}
    IN  IF hits = {} THEN UNDEFINED
        ELSE cols[CHOOSE i \in hits : \A j \in hits : i <= j].field

RECURSIVE SumSales(_, _)
SumSales(rows, field) ==
    IF rows = <<>> THEN 0
    ELSE OrZero(parseFloat(Get(Head(rows), field))).v + SumSales(Tail(rows), field)

RECURSIVE Gcd(_, _)
Gcd(a, b) == IF b = 0 THEN a ELSE Gcd(b, a % b)
Abs(n) == IF n < 0 THEN 0 - n ELSE n

\* a / b for b > 0, as the fraction in lowest terms
Quotient(a, b) ==
    LET g == Gcd(Abs(a), b) IN [num |-> a \div g, den |-> b \div g]

\* kpis without the early return of line 201
kpisNoEarlyReturn(filtered, cols) ==
    LET totalRows == Len(filtered)
        salesField == SalesField(cols)
        totalSales == IF Truthy(salesField) THEN SumSales(filtered, salesField) ELSE 0
        avgSales == IF totalRows # 0 THEN Quotient(totalSales, totalRows)
                    ELSE Quotient(0, 1)
    IN  [totalRows |-> totalRows, totalSales |-> totalSales, avgSales |-> avgSales]

\* lines 200-215: useMemo kpis
kpis(filtered, cols) ==
    IF Len(filtered) = 0 THEN EmptyObj
    ELSE LET totalRows == Len(filtered)
             salesField == SalesField(cols)
             totalSales == IF Truthy(salesField) THEN SumSales(filtered, salesField) ELSE 0
             avgSales == IF totalRows # 0 THEN Quotient(totalSales, totalRows)
                         ELSE Quotient(0, 1)
         IN  [totalRows |-> totalRows, totalSales |-> totalSales, avgSales |-> avgSales]

\* line 140: file.name.split(".").pop().toLowerCase()
fileExtension(file) == toLowerCase(LastSegment(file.name))

\* lines 76-89: the embed configuration the Power BI effect installs
PbiConfig ==
    [type |-> "report", id |-> "your-report-id", accessToken |-> "your-access-token"]

(***************************************************************************)
(* Dashboard: the categorical series                                       *)
(***************************************************************************)
\* lines 33-51
COLORS == << "#3B82F6", "#8B5CF6", "#06B6D4", "#10B981", "#F59E0B", "#EF4444" >>

\* two more uploads: a first column of codes, some of them numeric strings, one
\* empty and one spelled "Unknown"; and a sheet with years among its headers
CodeRows ==
    << [Code |-> "10", Sales |-> "100"], [Code |-> "2", Sales |-> "200"],
       [Code |-> "x", Sales |-> "300"], [Code |-> "10", Sales |-> "20"],
       [Code |-> "b", Sales |-> "160"], [Code |-> "c", Sales |-> "170"],
       [Code |-> "d", Sales |-> "180"], [Code |-> "e", Sales |-> "190"],
       [Code |-> "", Sales |-> "155"], [Code |-> "2", Sales |-> "30"],
       [Code |-> "Unknown", Sales |-> "400"] >>
CodeFile == [name |-> "codes.csv", fields |-> <<"Code", "Sales">>, data |-> CodeRows]

YearRows ==
    << ("Name" :> "ann") @@ ("2024" :> "7") @@ ("2023" :> "5"),
       ("Name" :> "bob") @@ ("2024" :> "7") @@ ("2023" :> "12"),
       ("Name" :> "cy") @@ ("2024" :> "3") @@ ("2023" :> "5") >>
YearFile ==
    [name |-> "years.csv", fields |-> <<"Name", "2024", "2023">>, data |-> YearRows]

Workbooks == {SalesFile, QuarterFile, CodeFile, YearFile}

\* the order in which the parser assigned the properties of a row: the header
\* order of its file
HeaderOf(row) ==
    (CHOOSE file \in Workbooks : \E k \in 1..Len(file.data) : file.data[k] = row).fields

\* a property key that is a canonical array index ("0", "7", "2023"; neither
\* "" nor "07").  Keys here have at most 9 digits, all below 2^32 - 1.
IsArrayIndex(key) ==
    /\ Len(key) \in 1..9
    /\ AllDigits(key)
    /\ (Len(key) = 1 \/ CharAt(key, 1) # "0")

\* property keys enumerated in the order of their creation, whatever they are
InsertionOrderKeys(created) == created

\* the order in which Object.keys / Object.entries enumerate the own string
\* keys of a plain object whose properties were created in the order
\* `created`: array indices first, ascending, then the others as created
OwnPropertyKeys(created) ==
    SortSeq(SelectSeq(created, IsArrayIndex),
            LAMBDA a, b : DigitsValue(a, 0) < DigitsValue(b, 0))
    \o SelectSeq(created, LAMBDA key : ~IsArrayIndex(key))

\* Object.keys(row)
ObjectKeys(row) == OwnPropertyKeys(HeaderOf(row))

\* the keys of `counts` in the order lines 224-227 create them
RECURSIVE CreatedKeys(_)
CreatedKeys(labels) ==
    IF labels = <<>> THEN <<>>
    ELSE LET before == CreatedKeys(SubSeq(labels, 1, Len(labels) - 1))
             last == labels[Len(labels)]
         IN  IF \E j \in 1..Len(before) : before[j] = last THEN before
             ELSE Append(before, last)

\* line 221
groupByField(filtered) ==
    LET keys == ObjectKeys(filtered[1])
    IN  IF Len(keys) > 0 /\ Truthy(keys[1]) THEN keys[1] ELSE "Category"

\* line 225
CountKey(row, field) ==
    IF Truthy(Get(row, field)) THEN Get(row, field) ELSE "Unknown"

\* lines 218-234
chartData(filtered) ==
    IF Len(filtered) = 0 THEN <<>>
    ELSE LET field == groupByField(filtered)
             labels == [k \in 1..Len(filtered) |-> CountKey(filtered[k], field)]
             names == OwnPropertyKeys(CreatedKeys(labels))
         IN  [i \in 1..Len(names) |->
                [name |-> names[i],
                 count |-> Cardinality({k \in 1..Len(labels) : labels[k] = names[i]}),
                 fill |-> COLORS[((i - 1) % Len(COLORS)) + 1]]]

(***************************************************************************)
(* Dashboard: state                                                        *)
(***************************************************************************)
VARIABLES
    rowData, columnDefs, filteredData, filterText, selectedColumn,
    numericFilters, dateRange, pbiEmbedConfig, showPbi,   \* useState, lines 54-67
    pending,        \* file reads started and not yet completed, oldest first
    overtaken,      \* how many of the oldest reads in flight have seen a read
                    \* started after them complete
    staleApplied,   \* the handler that ran last applied the result of such a read
    alertShown,     \* the handler that ran last called alert()
    dirty,          \* a state update is scheduled and not yet rendered
    depsChanged,    \* a dependency of the filter effect was set since the last render
    effects,        \* effects of the last commit that have not run yet
    view            \* what the last render showed

VARIABLES
    env,        \* import.meta.env
    pc,         \* where the request handler stands
    calls,      \* the upstream requests this request has issued, in order
    outcomes,   \* how each of them ended, in order
    response    \* the Response returned, NULL before

relayVars == << env, pc, calls, outcomes, response >>

dashVars ==
    << rowData, columnDefs, filteredData, filterText, selectedColumn,
       numericFilters, dateRange, pbiEmbedConfig, showPbi,
       pending, overtaken, staleApplied, alertShown,
       dirty, depsChanged, effects, view >>

\* the useState values, in declaration order
Session ==
    << rowData, columnDefs, filteredData, filterText, selectedColumn,
       numericFilters, dateRange, pbiEmbedConfig, showPbi >>

FilterConfiguration == << filterText, dateRange, numericFilters >>

\* the render function: the state it reads and the memoised values it shows
Rendered ==
    [rowData |-> rowData, columnDefs |-> columnDefs, filteredData |-> filteredData,
     filterText |-> filterText, dateRange |-> dateRange,
     numericFilters |-> numericFilters, showPbi |-> showPbi,
     pbiEmbedConfig |-> pbiEmbedConfig,
     kpis |-> kpis(filteredData, columnDefs),
     chartData |-> chartData(filteredData)]

\* lines 54-67, after the mount render and its effects
DashInit ==
    /\ rowData = <<>>
    /\ columnDefs = <<>>
    /\ filteredData = <<>>
    /\ filterText = ""
    /\ selectedColumn = ""
    /\ numericFilters = EmptyObj
    /\ dateRange = [start |-> "", end |-> ""]
    /\ pbiEmbedConfig = NULL
    /\ showPbi = FALSE
    /\ pending = <<>>
    /\ overtaken = 0
    /\ staleApplied = FALSE
    /\ alertShown = FALSE
    /\ dirty = FALSE
    /\ depsChanged = FALSE
    /\ effects = {}
    /\ view = Rendered

\* an event handler runs when React has nothing left to render or flush
Idle == ~dirty /\ effects = {}

Remove(seq, i) == SubSeq(seq, 1, i - 1) \o SubSeq(seq, i + 1, Len(seq))

\* the reads left in flight that a later-started read has overtaken, once the
\* i-th has completed: they are always the oldest ones
OvertakenAfter(i) == IF i <= overtaken THEN overtaken - 1 ELSE i - 1

machinery == << dirty, depsChanged, effects, view >>

(***************************************************************************)
(* Dashboard: event handlers                                               *)
(***************************************************************************)
\* onFileUpload telling the format by file.name.includes(".csv")
onFileUploadByInclude(file) ==
    /\ Idle
    /\ LET ext == fileExtension(file)
       IN  IF includes(toLowerCase(file.name), ".csv") \/ ext \in {"xlsx", "xls"}
           THEN /\ Len(pending) < MaxPending
                /\ pending' = Append(pending, file)
                /\ alertShown' = FALSE
           ELSE /\ alertShown' = TRUE
                /\ pending' = pending
    /\ staleApplied' = FALSE
    /\ UNCHANGED << Session, overtaken, machinery >>
    /\ UNCHANGED relayVars

\* lines 138-180.  Papa.parse and readAsArrayBuffer only start a read; the
\* line 179 reset of the <input> touches no state of the component.
onFileUpload(file) ==
    /\ Idle
    /\ LET ext == fileExtension(file)
       IN  IF ext = "csv" \/ ext \in {"xlsx", "xls"}
           THEN /\ Len(pending) < MaxPending
                /\ pending' = Append(pending, file)
                /\ alertShown' = FALSE
           ELSE /\ alertShown' = TRUE
                /\ pending' = pending
    /\ staleApplied' = FALSE
    /\ UNCHANGED << Session, overtaken, machinery >>
    /\ UNCHANGED relayVars

\* PapaComplete with rowData missing from the dependencies of the filter effect
PapaCompleteNoDeps(i) ==
    /\ Idle
    /\ i \in 1..Len(pending)
    /\ fileExtension(pending[i]) = "csv"
    /\ rowData' = pending[i].data
    /\ columnDefs' = ColumnDefsOf(pending[i].fields)
    /\ pending' = Remove(pending, i)
    /\ dirty' = TRUE
    /\ alertShown' = FALSE
    /\ staleApplied' = (i <= overtaken)
    /\ overtaken' = OvertakenAfter(i)
    /\ UNCHANGED << filteredData, filterText, selectedColumn, numericFilters,
                    dateRange, pbiEmbedConfig, showPbi, depsChanged, effects, view >>
    /\ UNCHANGED relayVars

\* PapaComplete dropping the result of a read that a later-started read has
\* overtaken (latest start wins)
PapaCompleteLatestStartWins(i) ==
    /\ Idle
    /\ i \in 1..Len(pending)
    /\ fileExtension(pending[i]) = "csv"
    /\ rowData' = (IF i <= overtaken THEN rowData ELSE pending[i].data)
    /\ columnDefs' = (IF i <= overtaken THEN columnDefs
                      ELSE ColumnDefsOf(pending[i].fields))
    /\ pending' = Remove(pending, i)
    /\ dirty' = TRUE
    /\ depsChanged' = TRUE
    /\ alertShown' = FALSE
    /\ staleApplied' = (i <= overtaken)
    /\ overtaken' = OvertakenAfter(i)
    /\ UNCHANGED << filteredData, filterText, selectedColumn, numericFilters,
                    dateRange, pbiEmbedConfig, showPbi, effects, view >>
    /\ UNCHANGED relayVars

\* lines 146-156: `complete` of Papa.parse for the i-th read in flight
PapaComplete(i) ==
    /\ Idle
    /\ i \in 1..Len(pending)
    /\ fileExtension(pending[i]) = "csv"
    /\ rowData' = pending[i].data
    /\ columnDefs' = ColumnDefsOf(pending[i].fields)
    /\ pending' = Remove(pending, i)
    /\ dirty' = TRUE
    /\ depsChanged' = TRUE
    /\ alertShown' = FALSE
    /\ staleApplied' = (i <= overtaken)
    /\ overtaken' = OvertakenAfter(i)
    /\ UNCHANGED << filteredData, filterText, selectedColumn, numericFilters,
                    dateRange, pbiEmbedConfig, showPbi, effects, view >>
    /\ UNCHANGED relayVars

\* ReaderOnload that also clears the search text and the numeric bounds
ReaderOnloadClearsFilters(i) ==
    /\ Idle
    /\ i \in 1..Len(pending)
    /\ fileExtension(pending[i]) \in {"xlsx", "xls"}
    /\ rowData' = pending[i].data
    /\ columnDefs' = ColumnDefsOf(IF pending[i].data = <<>> THEN <<>>
                                  ELSE OwnPropertyKeys(pending[i].fields))
    /\ filterText' = ""
    /\ numericFilters' = EmptyObj
    /\ pending' = Remove(pending, i)
    /\ dirty' = TRUE
    /\ depsChanged' = TRUE
    /\ alertShown' = FALSE
    /\ staleApplied' = (i <= overtaken)
    /\ overtaken' = OvertakenAfter(i)
    /\ UNCHANGED << filteredData, selectedColumn,
                    dateRange, pbiEmbedConfig, showPbi, effects, view >>
    /\ UNCHANGED relayVars

\* lines 160-174: reader.onload for the i-th read in flight; the columns are
\* the keys of the first row
ReaderOnload(i) ==
    /\ Idle
    /\ i \in 1..Len(pending)
    /\ fileExtension(pending[i]) \in {"xlsx", "xls"}
    /\ rowData' = pending[i].data
    /\ columnDefs' = ColumnDefsOf(IF pending[i].data = <<>> THEN <<>>
                                  ELSE OwnPropertyKeys(pending[i].fields))
    /\ pending' = Remove(pending, i)
    /\ dirty' = TRUE
    /\ depsChanged' = TRUE
    /\ alertShown' = FALSE
    /\ staleApplied' = (i <= overtaken)
    /\ overtaken' = OvertakenAfter(i)
    /\ UNCHANGED << filteredData, filterText, selectedColumn, numericFilters,
                    dateRange, pbiEmbedConfig, showPbi, effects, view >>
    /\ UNCHANGED relayVars

\* line 162: XLSX.read throws (a workbook it cannot read, or no global XLSX:
\* the component imports none) before any setter is called
ReaderOnloadThrows(i) ==
    /\ Idle
    /\ i \in 1..Len(pending)
    /\ fileExtension(pending[i]) \in {"xlsx", "xls"}
    /\ pending' = Remove(pending, i)
    /\ alertShown' = FALSE
    /\ staleApplied' = FALSE
    /\ overtaken' = OvertakenAfter(i)
    /\ UNCHANGED << Session, machinery >>
    /\ UNCHANGED relayVars

\* line 306: onChange of the search box
onFilterTextChange(value) ==
    /\ Idle
    /\ value # filterText
    /\ filterText' = value
    /\ dirty' = TRUE
    /\ depsChanged' = TRUE
    /\ alertShown' = FALSE
    /\ staleApplied' = FALSE
    /\ UNCHANGED overtaken
    /\ UNCHANGED << rowData, columnDefs, filteredData, selectedColumn, numericFilters,
                    dateRange, pbiEmbedConfig, showPbi, pending, effects, view >>
    /\ UNCHANGED relayVars

\* line 344: onChange of the start date
onDateStartChange(value) ==
    /\ Idle
    /\ value # dateRange.start
    /\ dateRange' = [dateRange EXCEPT !.start = value]
    /\ dirty' = TRUE
    /\ depsChanged' = TRUE
    /\ alertShown' = FALSE
    /\ staleApplied' = FALSE
    /\ UNCHANGED overtaken
    /\ UNCHANGED << rowData, columnDefs, filteredData, filterText, selectedColumn,
                    numericFilters, pbiEmbedConfig, showPbi, pending, effects, view >>
    /\ UNCHANGED relayVars

\* line 350: onChange of the end date
onDateEndChange(value) ==
    /\ Idle
    /\ value # dateRange.end
    /\ dateRange' = [dateRange EXCEPT !.end = value]
    /\ dirty' = TRUE
    /\ depsChanged' = TRUE
    /\ alertShown' = FALSE
    /\ staleApplied' = FALSE
    /\ UNCHANGED overtaken
    /\ UNCHANGED << rowData, columnDefs, filteredData, filterText, selectedColumn,
                    numericFilters, pbiEmbedConfig, showPbi, pending, effects, view >>
    /\ UNCHANGED relayVars

\* lines 357-358: the columns that get Min/Max inputs
NumericColumns ==
    {columnDefs[i].field : i \in {j \in 1..Len(columnDefs) :
        rowData # <<>> /\ ~parseFloat(Get(rowData[1], columnDefs[j].field)).nan}}

\* numericFilters[field], with undefined for the keys it lacks
BoundOf(filters, field) ==
    IF field \in DOMAIN filters THEN filters[field]
    ELSE [min |-> UNDEFINED, max |-> UNDEFINED]

\* lines 369-374: onChange of a Min input
onMinChange(field, value) ==
    /\ Idle
    /\ field \in NumericColumns
    /\ numericFilters' =
          (field :> [BoundOf(numericFilters, field) EXCEPT !.min = value]) @@ numericFilters
    /\ dirty' = TRUE
    /\ depsChanged' = TRUE
    /\ alertShown' = FALSE
    /\ staleApplied' = FALSE
    /\ UNCHANGED overtaken
    /\ UNCHANGED << rowData, columnDefs, filteredData, filterText, selectedColumn,
                    dateRange, pbiEmbedConfig, showPbi, pending, effects, view >>
    /\ UNCHANGED relayVars

\* lines 380-385: onChange of a Max input
onMaxChange(field, value) ==
    /\ Idle
    /\ field \in NumericColumns
    /\ numericFilters' =
          (field :> [BoundOf(numericFilters, field) EXCEPT !.max = value]) @@ numericFilters
    /\ dirty' = TRUE
    /\ depsChanged' = TRUE
    /\ alertShown' = FALSE
    /\ staleApplied' = FALSE
    /\ UNCHANGED overtaken
    /\ UNCHANGED << rowData, columnDefs, filteredData, filterText, selectedColumn,
                    dateRange, pbiEmbedConfig, showPbi, pending, effects, view >>
    /\ UNCHANGED relayVars

\* line 291: the Show/Hide Power BI button
onTogglePbi ==
    /\ Idle
    /\ showPbi' = ~showPbi
    /\ dirty' = TRUE
    /\ alertShown' = FALSE
    /\ staleApplied' = FALSE
    /\ UNCHANGED overtaken
    /\ UNCHANGED << rowData, columnDefs, filteredData, filterText, selectedColumn,
                    numericFilters, dateRange, pbiEmbedConfig, pending,
                    depsChanged, effects, view >>
    /\ UNCHANGED relayVars

\* lines 188-197: the eight setters of one click, batched into one update
onRefresh ==
    /\ Idle
    /\ rowData' = <<>>
    /\ columnDefs' = <<>>
    /\ filteredData' = <<>>
    /\ filterText' = ""
    /\ dateRange' = [start |-> "", end |-> ""]
    /\ numericFilters' = EmptyObj
    /\ selectedColumn' = ""
    /\ showPbi' = FALSE
    /\ dirty' = TRUE
    /\ depsChanged' = TRUE
    /\ alertShown' = FALSE
    /\ staleApplied' = FALSE
    /\ UNCHANGED overtaken
    /\ UNCHANGED << pbiEmbedConfig, pending, effects, view >>
    /\ UNCHANGED relayVars

(***************************************************************************)
(* Dashboard: React's render and effect phases                             *)
(***************************************************************************)
\* the component function runs on the updated state and is committed; the
\* effects whose dependencies changed are scheduled (lines 91 and 135)
Render ==
    /\ dirty
    /\ view' = Rendered
    /\ effects' = (IF depsChanged THEN {"filter"} ELSE {})
                  \cup (IF showPbi # view.showPbi THEN {"pbi"} ELSE {})
    /\ dirty' = FALSE
    /\ depsChanged' = FALSE
    /\ UNCHANGED << Session, pending, overtaken, staleApplied, alertShown >>
    /\ UNCHANGED relayVars

\* lines 74-91 and 94-135: the scheduled effects run, after the commit
FlushEffects ==
    /\ ~dirty
    /\ effects # {}
    /\ pbiEmbedConfig' = IF "pbi" \in effects /\ showPbi THEN PbiConfig
                         ELSE pbiEmbedConfig
    /\ filteredData' = IF "filter" \in effects
                       THEN FilterRows(rowData, filterText, dateRange, numericFilters)
                       ELSE filteredData
    /\ dirty' = (("filter" \in effects) \/ ("pbi" \in effects /\ showPbi))
    /\ effects' = {}
    /\ UNCHANGED << rowData, columnDefs, filterText, selectedColumn, numericFilters,
                    dateRange, showPbi, pending, overtaken, staleApplied, alertShown,
                    depsChanged, view >>
    /\ UNCHANGED relayVars

DashNext ==
    \/ \E file \in Files : onFileUpload(file)
    \/ \E i \in 1..MaxPending : PapaComplete(i)
    \/ \E i \in 1..MaxPending : ReaderOnload(i)
    \/ \E i \in 1..MaxPending : ReaderOnloadThrows(i)
    \/ \E value \in TextQueries : onFilterTextChange(value)
    \/ \E value \in StartInputs : onDateStartChange(value)
    \/ \E value \in EndInputs : onDateEndChange(value)
    \/ \E field \in NumericColumns, value \in MinInputs : onMinChange(field, value)
    \/ \E field \in NumericColumns, value \in MaxInputs : onMaxChange(field, value)
    \/ onTogglePbi
    \/ onRefresh
    \/ Render
    \/ FlushEffects

(***************************************************************************)
(* Embed token relay: GET of pages/api/powerbi-token.ts                    *)
(***************************************************************************)
Settings ==
    {"POWER_BI_CLIENT_ID", "POWER_BI_TENANT_ID", "POWER_BI_CLIENT_SECRET",
     "POWER_BI_WORKSPACE_ID", "POWER_BI_REPORT_ID"}

\* import.meta.env of a deployment: a setting is unset, empty or set
SettingValues == {UNDEFINED, "", "id"}

\* how an upstream fetch can end: the promise rejects, or it resolves with a
\* response whose `ok` is false, or whose body json() cannot read, or whose
\* body is the JSON the upstream API documents
Upstream(data) ==
    { [kind |-> "rejected", ok |-> FALSE, statusText |-> "", data |-> EmptyObj],
      [kind |-> "response", ok |-> FALSE, statusText |-> "Unauthorized",
       data |-> EmptyObj],
      [kind |-> "badBody", ok |-> TRUE, statusText |-> "OK", data |-> EmptyObj],
      [kind |-> "response", ok |-> TRUE, statusText |-> "OK", data |-> data] }

TokenOutcomes == Upstream([access_token |-> "aad-token"])
EmbedOutcomes == Upstream([token |-> "embed-token", expiration |-> "2030-01-01T00:00:00Z"])

RelayIdle ==
    /\ pc = "idle"
    /\ calls = <<>>
    /\ outcomes = <<>>
    /\ response = NULL

\* lines 14-22: the response to an incomplete configuration
ConfigError ==
    [status |-> 500, body |-> [error |-> "Power BI configuration is incomplete"],
     cacheControl |-> UNDEFINED]

\* lines 88-103: the catch block
Failure(message) ==
    [status |-> 500,
     body |-> [error |-> "Failed to generate Power BI embed token", details |-> message],
     cacheControl |-> UNDEFINED]

\* ConfigIncomplete without the check of reportId
ConfigIncompleteNoReport(e) ==
    \/ ~Truthy(e["POWER_BI_CLIENT_ID"])
    \/ ~Truthy(e["POWER_BI_TENANT_ID"])
    \/ ~Truthy(e["POWER_BI_CLIENT_SECRET"])
    \/ ~Truthy(e["POWER_BI_WORKSPACE_ID"])

\* line 14: one of the five settings is falsy
ConfigIncomplete(e) ==
    \/ ~Truthy(e["POWER_BI_CLIENT_ID"])
    \/ ~Truthy(e["POWER_BI_TENANT_ID"])
    \/ ~Truthy(e["POWER_BI_CLIENT_SECRET"])
    \/ ~Truthy(e["POWER_BI_WORKSPACE_ID"])
    \/ ~Truthy(e["POWER_BI_REPORT_ID"])

\* lines 25-40: the client-credentials request to the identity provider
TokenCall(e) ==
    [url |-> "https://login.microsoftonline.com/" \o e["POWER_BI_TENANT_ID"]
             \o "/oauth2/v2.0/token",
     authorization |-> UNDEFINED]

\* lines 50-62: the GenerateToken request to the report API
EmbedCall(e, accessToken) ==
    [url |-> "https://api.powerbi.com/v1.0/myorg/groups/" \o e["POWER_BI_WORKSPACE_ID"]
             \o "/reports/" \o e["POWER_BI_REPORT_ID"] \o "/GenerateToken",
     authorization |-> "Bearer " \o accessToken]

\* lines 70-86: the success response
Success(e, embedData) ==
    [status |-> 200,
     body |-> [embedToken |-> embedData.token,
               embedUrl |-> "https://app.powerbi.com/reportEmbed?reportId="
                            \o e["POWER_BI_REPORT_ID"] \o "&groupId="
                            \o e["POWER_BI_WORKSPACE_ID"],
               reportId |-> e["POWER_BI_REPORT_ID"],
               expiry |-> embedData.expiration],
     cacheControl |-> "no-store"]

\* lines 4-40: a request arrives; the handler runs up to its first await
GET ==
    /\ pc = "idle"
    /\ IF ConfigIncomplete(env)
       THEN /\ response' = ConfigError
            /\ pc' = "done"
            /\ calls' = calls
       ELSE /\ calls' = Append(calls, TokenCall(env))
            /\ pc' = "awaitToken"
            /\ response' = response
    /\ UNCHANGED << env, outcomes >>
    /\ UNCHANGED dashVars

\* TokenResponse without the `if (!tokenResponse.ok) throw` of lines 42-44
TokenResponseNoOkCheck(r) ==
    /\ pc = "awaitToken"
    /\ outcomes' = Append(outcomes, r)
    /\ IF r.kind = "rejected"
       THEN /\ response' = Failure("fetch failed")
            /\ pc' = "done"
            /\ calls' = calls
       ELSE IF r.kind = "badBody"
       THEN /\ response' = Failure("Unexpected token in JSON")
            /\ pc' = "done"
            /\ calls' = calls
       ELSE /\ calls' = Append(calls, EmbedCall(env,
                  IF "access_token" \in DOMAIN r.data THEN r.data.access_token
                  ELSE UNDEFINED))
            /\ pc' = "awaitEmbed"
            /\ response' = response
    /\ UNCHANGED env
    /\ UNCHANGED dashVars

\* lines 34-62: the identity provider's answer, up to the second await
TokenResponse(r) ==
    /\ pc = "awaitToken"
    /\ outcomes' = Append(outcomes, r)
    /\ IF r.kind = "rejected"
       THEN /\ response' = Failure("fetch failed")
            /\ pc' = "done"
            /\ calls' = calls
       ELSE IF ~r.ok
       THEN /\ response' = Failure("Failed to get Azure AD token: " \o r.statusText)
            /\ pc' = "done"
            /\ calls' = calls
       ELSE IF r.kind = "badBody"
       THEN /\ response' = Failure("Unexpected token in JSON")
            /\ pc' = "done"
            /\ calls' = calls
       ELSE /\ calls' = Append(calls, EmbedCall(env, r.data.access_token))
            /\ pc' = "awaitEmbed"
            /\ response' = response
    /\ UNCHANGED env
    /\ UNCHANGED dashVars

\* lines 52-86: the report API's answer, up to the return
EmbedResponse(r) ==
    /\ pc = "awaitEmbed"
    /\ outcomes' = Append(outcomes, r)
    /\ response' =
          IF r.kind = "rejected" THEN Failure("fetch failed")
          ELSE IF ~r.ok THEN Failure("Failed to generate embed token: " \o r.statusText)
          ELSE IF r.kind = "badBody" THEN Failure("Unexpected token in JSON")
          ELSE Success(env, r.data)
    /\ pc' = "done"
    /\ UNCHANGED << env, calls >>
    /\ UNCHANGED dashVars

\* the response is sent; the next request starts from fresh locals
NextRequest ==
    /\ pc = "done"
    /\ pc' = "idle"
    /\ calls' = <<>>
    /\ outcomes' = <<>>
    /\ response' = NULL
    /\ UNCHANGED env
    /\ UNCHANGED dashVars

RelayNext ==
    \/ GET
    \/ \E r \in TokenOutcomes : TokenResponse(r)
    \/ \E r \in EmbedOutcomes : EmbedResponse(r)
    \/ NextRequest

(***************************************************************************)
(* Specifications                                                          *)
(***************************************************************************)
vars == << dashVars, relayVars >>

CompleteEnv == [k \in Settings |-> "id"]

\* a session of the dashboard
Init == DashInit /\ env = CompleteEnv /\ RelayIdle
Next == DashNext
Spec == Init /\ [][Next]_vars

\* the relay serving requests, under every configuration of the deployment
RelayInit == DashInit /\ env \in [Settings -> SettingValues] /\ RelayIdle
RelaySpec == RelayInit /\ [][RelayNext]_vars

\* The filter and the aggregation on every dataset and filter configuration:
\* the state a completed upload and its render leave, the filter effect due.
\* The controls may hold what earlier uploads let the user set.
FilterDateInputs == {"", "2024-01-05", "2024-02-01"}
FilterMinInputs == {UNDEFINED, "", "0", "150"}
FilterMaxInputs == {UNDEFINED, "", "50"}
FilterBounds ==
    {b \in [min : FilterMinInputs, max : FilterMaxInputs] :
        b.min # UNDEFINED \/ b.max # UNDEFINED}
NumericConfigs ==
    UNION {[fields -> FilterBounds] : fields \in SUBSET {"Sales", "Revenue"}}

FilterInit ==
    /\ \E file \in {SalesFile, QuarterFile} :
          /\ rowData = file.data
          /\ columnDefs = ColumnDefsOf(file.fields)
    /\ filteredData = <<>>
    /\ filterText \in TextQueries
    /\ selectedColumn = ""
    /\ numericFilters \in NumericConfigs
    /\ dateRange \in [start : FilterDateInputs, end : FilterDateInputs]
    /\ pbiEmbedConfig = NULL
    /\ showPbi = FALSE
    /\ pending = <<>>
    /\ overtaken = 0
    /\ staleApplied = FALSE
    /\ alertShown = FALSE
    /\ dirty = FALSE
    /\ depsChanged = FALSE
    /\ effects = {"filter"}
    /\ view = Rendered
    /\ env = CompleteEnv
    /\ RelayIdle

FilterNext == FlushEffects \/ Render
FilterSpec == FilterInit /\ [][FilterNext]_vars

\* the series of every workbook under the session's search texts and dates and
\* every pair of bounds on Sales
ChartInit ==
    /\ \E file \in Workbooks :
          /\ rowData = file.data
          /\ columnDefs = ColumnDefsOf(file.fields)
    /\ filteredData = <<>>
    /\ filterText \in TextQueries
    /\ selectedColumn = ""
    /\ numericFilters \in {config \in NumericConfigs : DOMAIN config \subseteq {"Sales"}}
    /\ dateRange \in [start : StartInputs, end : EndInputs]
    /\ pbiEmbedConfig = NULL
    /\ showPbi = FALSE
    /\ pending = <<>>
    /\ overtaken = 0
    /\ staleApplied = FALSE
    /\ alertShown = FALSE
    /\ dirty = FALSE
    /\ depsChanged = FALSE
    /\ effects = {"filter"}
    /\ view = Rendered
    /\ env = CompleteEnv
    /\ RelayIdle

ChartNext == FlushEffects \/ Render
ChartSpec == ChartInit /\ [][ChartNext]_vars
(***************************************************************************)
(* Properties                                                              *)
(***************************************************************************)
\* a is b with some elements left out
RECURSIVE IsSubsequence(_, _)
IsSubsequence(a, b) ==
    IF a = <<>> THEN TRUE
    ELSE IF b = <<>> THEN FALSE
    ELSE IF Head(a) = Head(b) THEN IsSubsequence(Tail(a), Tail(b))
    ELSE IsSubsequence(a, Tail(b))

\* the filter effect has run on the current Dataset and Filter Configuration
FilterRan == ~depsChanged /\ "filter" \notin effects

\* C1: once the filter effect has run after an upload, a filter change or a
\* reset, the Filtered Dataset is a subsequence of the current Dataset.
C1_SubsetInvariant == FilterRan => IsSubsequence(filteredData, rowData)

\* a loaded session in which the filters keep some rows and drop others
C1_Witness ==
    /\ FilterRan /\ ~dirty
    /\ rowData = SalesRows
    /\ numericFilters # EmptyObj
    /\ Len(filteredData) \in 1..2

\* C2: every render shows the filter output of its own Dataset and Filter
\* Configuration: the filtered dataset behind the KPIs, the charts and the grid
\* equals filter(Dataset, Filter Configuration) as rendered.
C2_NoStaleRender ==
    view.filteredData =
        FilterRows(view.rowData, view.filterText, view.dateRange, view.numericFilters)

\* the numeric predicate as the specification words it: an unparsable value
\* counts as 0
CoercedNumericPass(row, field, bound) ==
    LET val == OrZero(parseFloat(Get(row, field)))
    IN  /\ (bound.min \in {UNDEFINED, ""} \/ val.v >= parseFloat(bound.min).v)
        /\ (bound.max \in {UNDEFINED, ""} \/ val.v <= parseFloat(bound.max).v)

\* the numeric predicate of the code: an unparsable value fails any bound set
StrictNumericPass(row, field, bound) ==
    LET val == parseFloat(Get(row, field))
    IN  /\ (bound.min \in {UNDEFINED, ""}
            \/ (~val.nan /\ val.v >= parseFloat(bound.min).v))
        /\ (bound.max \in {UNDEFINED, ""}
            \/ (~val.nan /\ val.v <= parseFloat(bound.max).v))

TextPass(row) == filterText = "" \/ TextMatch(row, filterText)
DatePass(row) == (dateRange.start = "" /\ dateRange.end = "") \/ DateMatch(row, dateRange)
NumericPass(row) ==
    \A f \in DOMAIN numericFilters : NumericMatch(row, f, numericFilters[f])

OnlySalesBound(min, max) ==
    /\ filterText = ""
    /\ dateRange = [start |-> "", end |-> ""]
    /\ numericFilters = ("Sales" :> [min |-> min, max |-> max])

\* C3 as stated: the rows kept are those whose value, with an unparsable value
\* counted as 0, lies within the bounds set on every bounded field.
C3_CoercedNumeric ==
    FilterRan =>
        filteredData =
            SelectSeq(rowData, LAMBDA row :
                /\ TextPass(row) /\ DatePass(row)
                /\ \A f \in DOMAIN numericFilters :
                      CoercedNumericPass(row, f, numericFilters[f]))

\* C3 amended: the rows kept are those whose value parses to a number within
\* the bounds set on every bounded field; a row whose value is unparsable is
\* dropped as soon as the field has a non-empty min or max.  Sales = [100,
\* 200, "bad"] with min "150" keeps the 200 row only, and with only max "50"
\* keeps nothing.
C3_StrictNumeric ==
    FilterRan =>
        /\ filteredData =
              SelectSeq(rowData, LAMBDA row :
                  /\ TextPass(row) /\ DatePass(row)
                  /\ \A f \in DOMAIN numericFilters :
                        StrictNumericPass(row, f, numericFilters[f]))
        /\ (rowData = SalesRows /\ OnlySalesBound("150", UNDEFINED)
              => filteredData = << SalesRows[2] >>)
        /\ (rowData = SalesRows /\ OnlySalesBound(UNDEFINED, "50")
              => filteredData = <<>>)

\* the filter has run on Sales = [100, 200, "bad"] with only max "50" set
C3_Witness ==
    /\ FilterRan /\ ~dirty
    /\ rowData = SalesRows
    /\ OnlySalesBound(UNDEFINED, "50")
    /\ view.filteredData = <<>>

\* row.Date || row.date
DateStr(row) ==
    IF Truthy(Get(row, "Date")) THEN row["Date"]
    ELSE IF Truthy(Get(row, "date")) THEN row["date"] ELSE UNDEFINED

InRange(row) ==
    /\ (dateRange.start = "" \/ NewDate(DateStr(row)).v >= NewDate(dateRange.start).v)
    /\ (dateRange.end = "" \/ NewDate(DateStr(row)).v <= NewDate(dateRange.end).v)

DateActive == dateRange.start # "" \/ dateRange.end # ""

\* C4 as stated: the date axis never drops a row whose date is absent, empty
\* or unparsable, and keeps a row with a parsable date exactly when it lies in
\* the range.
C4_PermissiveDate ==
    FilterRan =>
        filteredData =
            SelectSeq(rowData, LAMBDA row :
                /\ TextPass(row) /\ NumericPass(row)
                /\ (DateActive =>
                      \/ ~Truthy(DateStr(row))
                      \/ NewDate(DateStr(row)).nan
                      \/ InRange(row)))

\* C4 amended: the date axis never drops a row whose date is absent or empty;
\* it drops a row whose date is present and unparsable as soon as a start or an
\* end is set; it keeps a row with a parsable date exactly when it lies in the
\* range.
C4_AbsentDatePasses ==
    FilterRan =>
        /\ filteredData =
            SelectSeq(rowData, LAMBDA row :
                /\ TextPass(row) /\ NumericPass(row)
                /\ (DateActive =>
                      \/ ~Truthy(DateStr(row))
                      \/ (~NewDate(DateStr(row)).nan /\ InRange(row))))
        /\ (rowData = QuarterRows /\ filterText = "" /\ numericFilters = EmptyObj
              => filteredData = QuarterRows)

\* the filter has run with a start date on rows without any date field, and
\* on rows with an unparsable date
C4_Witness ==
    /\ FilterRan /\ ~dirty
    /\ dateRange.start = "2024-01-05"
    /\ filterText = "" /\ numericFilters = EmptyObj
    /\ \/ rowData = QuarterRows /\ filteredData = QuarterRows
       \/ rowData = SalesRows /\ dateRange.end = ""
          /\ filteredData = << SalesRows[2], SalesRows[3] >>

HasKpis(v) == DOMAIN v.kpis = {"totalRows", "totalSales", "avgSales"}

\* C5 as stated: every KPI summary has totalRows = the length of the filtered
\* dataset, 0 included, and avgSales = totalSales / totalRows, or 0 for no rows.
C5_KpiAlways ==
    /\ HasKpis(view)
    /\ view.kpis.totalRows = Len(view.filteredData)
    /\ view.kpis.avgSales.num * view.kpis.totalRows
          = view.kpis.totalSales * view.kpis.avgSales.den

\* C5 amended: for a non-empty filtered dataset the KPI summary has totalRows =
\* its length and avgSales = totalSales / totalRows, unparsable sales counting
\* as 0 (Sales = [100, 200, "bad"] under the field descriptors of its file:
\* 300, 100, 3); for an empty one the summary is the empty object, with no
\* totalRows and no avgSales, and nothing divides.
C5_KpiConsistency ==
    /\ (Len(view.filteredData) = 0 => view.kpis = EmptyObj)
    /\ (Len(view.filteredData) > 0 =>
          /\ HasKpis(view)
          /\ view.kpis.totalRows = Len(view.filteredData)
          /\ view.kpis.avgSales.den > 0
          /\ view.kpis.avgSales.num * view.kpis.totalRows
                = view.kpis.totalSales * view.kpis.avgSales.den)
    /\ (view.filteredData = SalesRows
        /\ view.columnDefs = ColumnDefsOf(SalesFile.fields) =>
          view.kpis = [totalRows |-> 3, totalSales |-> 300,
                       avgSales |-> [num |-> 100, den |-> 1]])

\* the render of Sales = [100, 200, "bad"], unfiltered
C5_Witness ==
    /\ view.filteredData = SalesRows
    /\ view.columnDefs = ColumnDefsOf(SalesFile.fields)
    /\ view.kpis.totalSales = 300
    /\ view.kpis.totalRows = 3

SupportedExtensions == {"csv", "xlsx", "xls"}

\* C6: an upload whose extension (what follows the last "." of the name, in
\* lower case) is not csv, xlsx or xls raises the alert and leaves Dataset,
\* field descriptors, Filtered Dataset and Filter Configuration, and all other
\* state of the session, as they were.
C6_UnsupportedUpload ==
    [][\A file \in Files :
          (onFileUpload(file) /\ fileExtension(file) \notin SupportedExtensions)
             => (alertShown' /\ UNCHANGED << Session, pending, machinery >>)]_vars

\* the alert was raised in a session that has data and filters
C6_Witness ==
    /\ alertShown
    /\ rowData = SalesRows
    /\ filterText = "NO"
    /\ numericFilters # EmptyObj
    /\ Len(filteredData) = 1

\* C7: a completed upload installs the rows and the field descriptors of its
\* file and leaves the Filter Configuration as it was; once the filter effect
\* has run, the Filtered Dataset is the new Dataset under those same filters.
C7_UploadKeepsFilters ==
    /\ [][\A i \in 1..MaxPending :
             (PapaComplete(i) \/ ReaderOnload(i)) =>
                /\ rowData' = pending[i].data
                /\ columnDefs' = ColumnDefsOf(pending[i].fields)
                /\ UNCHANGED FilterConfiguration]_vars
    /\ [](FilterRan =>
             filteredData = FilterRows(rowData, filterText, dateRange, numericFilters))

\* the second file is loaded under a bound that only the first file let the
\* user set, and that bound is applied to it
C7_Witness ==
    /\ FilterRan /\ ~dirty
    /\ rowData = QuarterRows
    /\ columnDefs = ColumnDefsOf(QuarterFile.fields)
    /\ "Sales" \in DOMAIN numericFilters
    /\ numericFilters["Sales"].min = "150"
    /\ filteredData = <<>>

\* the useState values after construction (lines 54-67)
InitialSession ==
    << <<>>, <<>>, <<>>, "", "", EmptyObj, [start |-> "", end |-> ""], NULL, FALSE >>

\* C8: one click on Reset takes the session, in one step, to its initial
\* state: Dataset, field descriptors, Filtered Dataset, Filter Configuration
\* and embed-visibility flag at their defaults, and every other state value
\* as after construction.
C8_ResetToInitial == [][onRefresh => Session' = InitialSession]_vars

\* C9: with one of the five settings unset or empty, the handler answers 500
\* with an error message and has issued no upstream request.
AnySettingMissing == \E k \in Settings : env[k] \in {UNDEFINED, ""}

C9_ConfigIncomplete ==
    AnySettingMissing =>
        /\ calls = <<>>
        /\ pc \in {"idle", "done"}
        /\ (pc = "done" =>
              /\ response.status = 500
              /\ "error" \in DOMAIN response.body
              /\ response.body.error # "")

\* a request answered under a configuration that lacks exactly one setting
C9_Witness ==
    /\ pc = "done"
    /\ Cardinality({k \in Settings : env[k] \in {UNDEFINED, ""}}) = 1
    /\ response.status = 500
    /\ calls = <<>>

\* an upstream call succeeded: it resolved with an ok response whose JSON body
\* was read
Succeeded(r) == r.kind = "response" /\ r.ok

IsTokenCall(c) == includes(c.url, "login.microsoftonline.com")
IsEmbedCall(c) == includes(c.url, "api.powerbi.com")

\* C10: a request issues at most the identity-token call and then the
\* embed-token call, each once; the embed-token call is issued only after the
\* identity-token call has succeeded; the answer is 200 with embedToken,
\* embedUrl, reportId and expiry exactly when both calls succeeded, and 500
\* with an error message otherwise.
C10_RelayProtocol ==
    /\ Len(calls) <= 2
    /\ Len(outcomes) <= Len(calls)
    /\ (Len(calls) >= 1 => IsTokenCall(calls[1]))
    /\ (Len(calls) = 2 =>
          /\ IsEmbedCall(calls[2])
          /\ Len(outcomes) >= 1
          /\ Succeeded(outcomes[1])
          /\ calls[2].authorization = "Bearer " \o outcomes[1].data.access_token)
    /\ (pc = "done" =>
          /\ Len(outcomes) = Len(calls)
          /\ (response.status = 200
                <=> (Len(outcomes) = 2 /\ \A i \in 1..2 : Succeeded(outcomes[i])))
          /\ (response.status = 200 =>
                /\ DOMAIN response.body = {"embedToken", "embedUrl", "reportId", "expiry"}
                /\ response.body.embedToken = outcomes[2].data.token
                /\ response.body.expiry = outcomes[2].data.expiration
                /\ response.body.reportId = env["POWER_BI_REPORT_ID"])
          /\ (response.status # 200 =>
                /\ response.status = 500
                /\ "error" \in DOMAIN response.body
                /\ response.body.error # ""))

\* a request answered 200 after both calls
C10_Witness ==
    /\ pc = "done"
    /\ Len(calls) = 2
    /\ response.status = 200

(***************************************************************************)
(* C11: overlapping uploads                                                *)
(***************************************************************************)
\* what the completion of a read of `file` hands to setRowData/setColumnDefs
AppliedData(file) == file.data

AppliedColumns(file) ==
    IF fileExtension(file) = "csv" THEN ColumnDefsOf(file.fields)
    ELSE ColumnDefsOf(IF file.data = <<>> THEN <<>> ELSE OwnPropertyKeys(file.fields))

\* C11: starting an upload replaces neither the dataset nor the field
\* descriptors; they are replaced only when the completion callback of a read
\* fires (or by Reset All, which empties them), and a completion that reaches
\* its setters is applied whatever its place among the reads in flight: the
\* dataset and the descriptors become those of its file, even when a read
\* started after it has already completed.  So of two overlapping uploads the
\* one whose completion fires last wins.
C11_LastCompletionWins ==
    [][ /\ \A file \in Files :
              onFileUpload(file) => UNCHANGED << rowData, columnDefs, filteredData >>
        /\ (Len(pending') > Len(pending) => UNCHANGED << rowData, columnDefs >>)
        /\ (rowData' # rowData =>
              \/ rowData' = <<>> /\ columnDefs' = <<>>
              \/ \E i \in 1..Len(pending) :
                    /\ pending' = Remove(pending, i)
                    /\ rowData' = AppliedData(pending[i]))
        /\ \A i \in 1..Len(pending) :
              (PapaComplete(i) \/ ReaderOnload(i)) =>
                  /\ rowData' = AppliedData(pending[i])
                  /\ columnDefs' = AppliedColumns(pending[i])
                  /\ pending' = Remove(pending, i)
                  /\ staleApplied' = (i <= overtaken)
      ]_vars

\* sales.csv was started first and Q2.XLSX second; Q2.XLSX completed first and
\* was rendered; the completion of sales.csv has just fired and its rows and
\* columns are the state, not yet rendered
C11_Witness ==
    /\ staleApplied
    /\ pending = <<>>
    /\ rowData = SalesRows
    /\ columnDefs = ColumnDefsOf(SalesFile.fields)
    /\ view.rowData = QuarterRows
    /\ dirty

(***************************************************************************)
(* C12: the categorical series                                             *)
(***************************************************************************)
\* the label a row is counted under when the rows are grouped by `field`
LabelOf(row, field) ==
    IF Get(row, field) \in {UNDEFINED, ""} THEN "Unknown" ELSE Get(row, field)

LabelsOf(rows, field) == [k \in 1..Len(rows) |-> LabelOf(rows[k], field)]

\* where a label occurs first
FirstIndex(labels, label) ==
    CHOOSE k \in 1..Len(labels) :
        labels[k] = label /\ \A j \in 1..(k - 1) : labels[j] # label

\* one entry per distinct label, with the number of rows under it
OneEntryPerLabel(series, labels) ==
    /\ {series[i].name : i \in 1..Len(series)} = {labels[k] : k \in 1..Len(labels)}
    /\ \A i, j \in 1..Len(series) : series[i].name = series[j].name => i = j
    /\ \A i \in 1..Len(series) :
          series[i].count = Cardinality({k \in 1..Len(labels) : labels[k] = series[i].name})

PaletteCycles(series) ==
    \A i \in 1..Len(series) : series[i].fill = COLORS[((i - 1) % Len(COLORS)) + 1]

\* the field the series groups by: the header that is the least array index
\* if any header is one, the first header otherwise
FirstOwnKey(row) ==
    LET header == HeaderOf(row)
        indices == {header[k] : k \in {j \in 1..Len(header) : IsArrayIndex(header[j])}}
    IN  IF indices = {} THEN header[1]
        ELSE CHOOSE f \in indices :
                \A g \in indices : DigitsValue(f, 0) <= DigitsValue(g, 0)

====
